---- MODULE Spec2Model ----
(***************************************************************************)
(* Storage accounting of the table_inspector DuckDB extension:             *)
(*   - CountUniqueBlocks        (block identity set)                        *)
(*   - FilterAndCalculateSegments / inspect_column (segment size resolver) *)
(*   - inspect_storage_summary  (storage breakdown partitioner)            *)
(*   - FormatSize / FormatPercentage                                        *)
(*                                                                         *)
(* idx_t is an unsigned 64-bit integer.  TLC's integers are 32 bits wide,  *)
(* so an idx_t value v is held as its two's-complement reading:            *)
(*     v <  2^63  is held as  v                                             *)
(*     v >= 2^63  is held as  v - 2^64   (a negative number)                *)
(* Addition, subtraction and multiplication modulo 2^64 are then the       *)
(* integer operations on the held numbers, exactly, as long as the held    *)
(* numbers stay small, which the bounds of the model guarantee.  A held    *)
(* number below zero therefore IS a wrapped-around unsigned value.         *)
(***************************************************************************)
EXTENDS Integers, Sequences, FiniteSets, TLC

VARIABLES
    debug_build,      \* TRUE: D_ASSERT is compiled in (debug), FALSE: compiled out (release)
    vector_size,      \* STANDARD_VECTOR_SIZE of the build
    all_segments,     \* table.GetColumnSegmentInfo(): the segment list of one table
    block_alloc_size, \* GetBlockAllocSize() of the table's block manager
    target_column_id, \* FilterAndCalculateSegments: the target column
    count_result,     \* outcome of CountUniqueBlocks(all_segments)
    filter_result,    \* outcome of FilterAndCalculateSegments(all_segments, ...)
    catalog,          \* the catalog Catalog::GetCatalog resolves to: InMemory(), GetSchemas()
    database_size,    \* catalog.GetDatabaseSize(): total_blocks, free_blocks, block_size
    metadata_info,    \* catalog.GetMetadataInfo(): one entry per metadata block
    databases,        \* DatabaseManager::GetDatabases(): the attached databases
    function_name,    \* per invocation: the table function that was called
    pc,               \* per invocation: where the table function stands
    inputs,           \* per invocation: input.inputs, the arguments of the call
    bind_data,        \* per invocation: the FunctionData made by bind
    entries,          \* per invocation: the global state's pre-built entry list
    offset,           \* per invocation: the global state's cursor
    output,           \* per invocation: the DataChunk of the last Execute call
    emitted,          \* per invocation: every row handed to the consumer so far
    error,            \* per invocation: the exception that ended it, "none" otherwise
    pulls,            \* per invocation: number of Execute calls made
    format_input,     \* the argument list of one FormatSize / FormatPercentage call
    format_result     \* the string that call returned

buildVars    == <<debug_build, vector_size>>
snapshotVars == <<all_segments, block_alloc_size, catalog, database_size, metadata_info,
                  databases>>
segmentVars  == <<target_column_id, count_result, filter_result>>
invocationVars == <<function_name, pc, inputs, bind_data, entries, offset, output, emitted, error, pulls>>
formatVars == <<format_input, format_result>>
vars == <<buildVars, snapshotVars, segmentVars, invocationVars, formatVars>>

----------------------------------------------------------------------------
(* Bounds of the model *)

\* longest segment list of a table snapshot
MaxSegs == 3

\* largest total_blocks, free_blocks and number of metadata blocks of a file
MaxTotalBlocks == 5
MaxFreeBlocks == 2
MaxMetadataBlocks == 2

\* most Execute calls a consumer makes on one invocation
MaxPulls == 5

----------------------------------------------------------------------------
(* Values of the storage collaborator *)

\* block_id_t(-1): the reserved "no backing block" identifier
INVALID_BLOCK == -1

\* STANDARD_VECTOR_SIZE is a build-time power of two (2048 by default, 2 in
\* the small-vector test builds)
VectorSizes == {2, 2048}

\* all sequences over S of length 0..n
SeqUpTo(S, n) == UNION {[1..k -> S] : k \in 0..n}

\* ColumnSegmentInfo, the fields the extension reads
Segment(rg, col, path, pers, blk, off, add, comp, cnt) ==
    [row_group_index |-> rg, column_id |-> col, column_path |-> path,
     persistent |-> pers, block_id |-> blk, block_offset |-> off,
     additional_blocks |-> add, compression_type |-> comp, segment_count |-> cnt]

----------------------------------------------------------------------------
(* CountUniqueBlocks *)

\* outcome of a call: a returned value, or the InternalException of a failed D_ASSERT
Returned(v) == [status |-> "ok", value |-> v]
AssertionFailed == [status |-> "internal_error", value |-> 0]
NotCalled == [status |-> "none", value |-> 0]

\* inner loop: insert every additional block id, asserting it is not the sentinel
RECURSIVE InsertAdditional(_, _, _, _)
InsertAdditional(add, j, acc, debug) ==
    IF acc.status # "ok" \/ j > Len(add) THEN acc
    ELSE IF debug /\ add[j] = INVALID_BLOCK THEN AssertionFailed
    ELSE InsertAdditional(add, j + 1, Returned(acc.value \cup {add[j]}), debug)

\* variant: the persistence test is dropped
IsCounted_IgnoresPersistent(seg) == seg.block_id # INVALID_BLOCK

\* a segment is counted when it is persistent and has a valid primary block id
IsCounted(seg) == seg.persistent /\ seg.block_id # INVALID_BLOCK

\* outer loop over the segments, building unique_blocks
RECURSIVE InsertSegments(_, _, _, _)
InsertSegments(segs, i, acc, debug) ==
    IF acc.status # "ok" \/ i > Len(segs) THEN acc
    ELSE IF IsCounted(segs[i])
         THEN InsertSegments(segs, i + 1,
                  InsertAdditional(segs[i].additional_blocks, 1,
                      Returned(acc.value \cup {segs[i].block_id}), debug), debug)
         ELSE InsertSegments(segs, i + 1, acc, debug)

UniqueBlocks(segs, debug) == InsertSegments(segs, 1, Returned({}), debug)

\* variant: block ids are collected in a list, not a set (one count per occurrence)
CountUniqueBlocks_PerOccurrence(segs, debug) ==
    LET u == UniqueBlocks(segs, debug)
        RECURSIVE Occurrences(_)
        Occurrences(i) ==
            IF i > Len(segs) THEN 0
            ELSE (IF IsCounted(segs[i]) THEN 1 + Len(segs[i].additional_blocks) ELSE 0)
                 + Occurrences(i + 1)
    IN  IF u.status = "ok" THEN Returned(Occurrences(1)) ELSE u

CountUniqueBlocks(segs, debug) ==
    LET u == UniqueBlocks(segs, debug)
    IN  IF u.status = "ok" THEN Returned(Cardinality(u.value)) ELSE u

----------------------------------------------------------------------------
(* FilterAndCalculateSegments *)

\* "[" + std::to_string(seg.column_id) + "]"
ExpectedPath(column_id) == "[" \o ToString(column_id) \o "]"

\* variant: the column path is not looked at
IsTargetMainDataSegment_AnyPath(seg, target) ==
    IF seg.column_id # target THEN FALSE
    ELSE IF ~seg.persistent \/ seg.block_id = INVALID_BLOCK THEN FALSE
    ELSE TRUE

IsTargetMainDataSegment(seg, target) ==
    IF seg.column_id # target THEN FALSE
    ELSE IF seg.column_path # ExpectedPath(seg.column_id) THEN FALSE
    ELSE IF ~seg.persistent \/ seg.block_id = INVALID_BLOCK THEN FALSE
    ELSE TRUE

\* variant: the first loop leaves out the segments that spill into additional blocks
RECURSIVE PushOffsets_SkipsSpilling(_, _, _)
PushOffsets_SkipsSpilling(segs, i, blk) ==
    IF i > Len(segs) THEN <<>>
    ELSE IF ~segs[i].persistent \/ segs[i].block_id = INVALID_BLOCK
            \/ segs[i].additional_blocks # <<>>
         THEN PushOffsets_SkipsSpilling(segs, i + 1, blk)
    ELSE IF segs[i].block_id = blk
         THEN <<segs[i].block_offset>> \o PushOffsets_SkipsSpilling(segs, i + 1, blk)
    ELSE PushOffsets_SkipsSpilling(segs, i + 1, blk)

\* first loop: block_to_all_offsets[seg.block_id].push_back(seg.block_offset)
\* for every segment that is persistent and has a valid block id
RECURSIVE PushOffsets(_, _, _)
PushOffsets(segs, i, blk) ==
    IF i > Len(segs) THEN <<>>
    ELSE IF ~segs[i].persistent \/ segs[i].block_id = INVALID_BLOCK
         THEN PushOffsets(segs, i + 1, blk)
    ELSE IF segs[i].block_id = blk
         THEN <<segs[i].block_offset>> \o PushOffsets(segs, i + 1, blk)
    ELSE PushOffsets(segs, i + 1, blk)

\* std::sort of one offset list (ascending, duplicates kept)
RECURSIVE InsertSorted(_, _)
InsertSorted(x, sorted) ==
    IF sorted = <<>> THEN <<x>>
    ELSE IF x <= Head(sorted) THEN <<x>> \o sorted
    ELSE <<Head(sorted)>> \o InsertSorted(x, Tail(sorted))

RECURSIVE SortOffsets(_)
SortOffsets(offs) ==
    IF offs = <<>> THEN <<>> ELSE InsertSorted(Head(offs), SortOffsets(Tail(offs)))

\* block_to_all_offsets after both loops, looked up at one block id
BlockToAllOffsets(segs, blk) == SortOffsets(PushOffsets(segs, 1, blk))

\* std::find: index of the first element equal to x, Len + 1 for end()
RECURSIVE FindOffset(_, _, _)
FindOffset(offsets, x, k) ==
    IF k > Len(offsets) THEN k
    ELSE IF offsets[k] = x THEN k
    ELSE FindOffset(offsets, x, k + 1)

\* the body of the second loop for one target segment: compressed_size
CompressedSize(segs, seg, alloc) ==
    LET offsets == BlockToAllOffsets(segs, seg.block_id)
        it == FindOffset(offsets, seg.block_offset, 1)
    IN  IF it + 1 # Len(offsets) + 1
        THEN offsets[it + 1] - seg.block_offset
        ELSE alloc - seg.block_offset

\* D_ASSERT(it != offsets.end())
OffsetFound(segs, seg) ==
    LET offsets == BlockToAllOffsets(segs, seg.block_id)
    IN  FindOffset(offsets, seg.block_offset, 1) <= Len(offsets)

\* variant: a spilling segment is charged one additional block, however many it has
FilteredSegmentEntry_OneAdditional(segs, seg, column_name, column_type, alloc) ==
    [row_group_index |-> seg.row_group_index,
     column_name |-> column_name,
     column_type |-> column_type,
     compression_type |-> seg.compression_type,
     compressed_size |-> CompressedSize(segs, seg, alloc),
     additional_blocks_size |-> IF seg.additional_blocks = <<>> THEN 0 ELSE alloc,
     row_count |-> seg.segment_count]

FilteredSegmentEntry(segs, seg, column_name, column_type, alloc) ==
    [row_group_index |-> seg.row_group_index,
     column_name |-> column_name,
     column_type |-> column_type,
     compression_type |-> seg.compression_type,
     compressed_size |-> CompressedSize(segs, seg, alloc),
     additional_blocks_size |-> Len(seg.additional_blocks) * alloc,
     row_count |-> seg.segment_count]

\* dereferencing end() + 1 when the lookup fails in a build without assertions
UndefinedBehaviour == [status |-> "undefined", value |-> 0]

RECURSIVE FilterLoop(_, _, _, _, _, _, _, _)
FilterLoop(segs, i, acc, target, column_name, column_type, alloc, debug) ==
    IF i > Len(segs) THEN Returned(acc)
    ELSE IF ~IsTargetMainDataSegment(segs[i], target)
         THEN FilterLoop(segs, i + 1, acc, target, column_name, column_type, alloc, debug)
    ELSE IF ~OffsetFound(segs, segs[i])
         THEN (IF debug THEN AssertionFailed ELSE UndefinedBehaviour)
    ELSE FilterLoop(segs, i + 1,
             Append(acc, FilteredSegmentEntry(segs, segs[i], column_name, column_type, alloc)),
             target, column_name, column_type, alloc, debug)

FilterAndCalculateSegments(segs, target, column_name, column_type, alloc, debug) ==
    FilterLoop(segs, 1, <<>>, target, column_name, column_type, alloc, debug)

----------------------------------------------------------------------------
(* The inspected table: snapshots the storage collaborator can hand over *)

\* columns of the inspected table; the physical index is the position - 1
TableColumns == <<[name |-> "a", type |-> "INTEGER"], [name |-> "b", type |-> "VARCHAR"]>>
ColumnIds == {k - 1 : k \in DOMAIN TableColumns}
ColumnNameOf(id) == TableColumns[id + 1].name
ColumnTypeOf(id) == TableColumns[id + 1].type

\* column paths: "[c]" is the main data of column c, "[c, 0]" its validity bitmap
MainPath(c) == "[" \o ToString(c) \o "]"
ValidityPath(c) == "[" \o ToString(c) \o ", 0]"

BlockAllocSizes == {1024, 262144}

Shape(col, path, pers, blk, off, add) ==
    [column_id |-> col, column_path |-> path, persistent |-> pers,
     block_id |-> blk, block_offset |-> off, additional_blocks |-> add]

\* where a persisted segment can start: three offsets in block 1, one in block 2
Placements == {<<1, 0>>, <<1, 100>>, <<1, 250>>, <<2, 0>>}
ColumnPaths == {<<0, MainPath(0)>>, <<0, ValidityPath(0)>>, <<1, MainPath(1)>>}

SegmentShapes ==
    \* persisted single-block segments of either column, data or validity
    {Shape(cp[1], cp[2], TRUE, pl[1], pl[2], <<>>) : cp \in ColumnPaths, pl \in Placements}
    \* persisted segments spilling into additional blocks; one list holds the sentinel
    \cup {Shape(0, MainPath(0), TRUE, 1, 100, add) :
             add \in {<<3>>, <<2, 3>>, <<INVALID_BLOCK>>}}
    \* a transient segment and a constant segment (no backing block)
    \cup {Shape(0, MainPath(0), FALSE, 1, 250, <<3>>),
          Shape(0, MainPath(0), TRUE, INVALID_BLOCK, 250, <<3>>)}

CompressionOf(shape) ==
    IF shape.column_path = ValidityPath(shape.column_id) THEN "Uncompressed"
    ELSE IF shape.column_id = 0 THEN "BitPacking" ELSE "Dictionary"

\* the segment list built from a sequence of shapes: one row group per entry,
\* full row groups of 122880 rows and a partial last one of 8480 rows
MakeTable(shapes) ==
    [i \in DOMAIN shapes |->
        Segment(i - 1, shapes[i].column_id, shapes[i].column_path, shapes[i].persistent,
                shapes[i].block_id, shapes[i].block_offset, shapes[i].additional_blocks,
                CompressionOf(shapes[i]),
                IF i = Len(shapes) THEN 8480 ELSE 122880)]

\* two segments of the same column path never start at the same place of a block
\* (segments of different paths may: a zero-length segment starts where the next one does)
DistinctPlaces(shapes) ==
    \A i, j \in DOMAIN shapes :
        (/\ i < j
         /\ shapes[i].persistent /\ shapes[j].persistent
         /\ shapes[i].block_id # INVALID_BLOCK
         /\ shapes[i].block_id = shapes[j].block_id
         /\ shapes[i].block_offset = shapes[j].block_offset)
        => shapes[i].column_path # shapes[j].column_path

TableSnapshots ==
    {MakeTable(sh) : sh \in {x \in SeqUpTo(SegmentShapes, MaxSegs) : DistinctPlaces(x)}}

----------------------------------------------------------------------------
(* Specification of the two pure functions over one table snapshot *)

\* table function invocations that can be in flight
Invocations == {1, 2}

\* no table function has been invoked
NoInvocation ==
    /\ function_name = [i \in Invocations |-> ""]
    /\ pc = [i \in Invocations |-> "start"]
    /\ inputs = [i \in Invocations |-> <<>>]
    /\ bind_data = [i \in Invocations |-> <<>>]
    /\ entries = [i \in Invocations |-> <<>>]
    /\ offset = [i \in Invocations |-> 0]
    /\ output = [i \in Invocations |-> <<>>]
    /\ emitted = [i \in Invocations |-> <<>>]
    /\ error = [i \in Invocations |-> "none"]
    /\ pulls = [i \in Invocations |-> 0]

\* no formatter call is being looked at
NoFormatCall ==
    /\ format_input = [function |-> "none"]
    /\ format_result = NotCalled

EmptyCatalog == [in_memory |-> FALSE, schemas |-> <<>>]
EmptyDatabaseSize == [total_blocks |-> 0, free_blocks |-> 0, block_size |-> 262144]

InitSegments ==
    /\ debug_build \in BOOLEAN
    /\ vector_size = 2048
    /\ all_segments \in TableSnapshots
    /\ block_alloc_size \in BlockAllocSizes
    /\ catalog = EmptyCatalog
    /\ database_size = EmptyDatabaseSize
    /\ metadata_info = <<>>
    /\ target_column_id \in ColumnIds
    /\ count_result = NotCalled
    /\ filter_result = NotCalled
    /\ databases = <<>>
    /\ NoInvocation
    /\ NoFormatCall

CallCountUniqueBlocks ==
    /\ count_result = NotCalled
    /\ count_result' = CountUniqueBlocks(all_segments, debug_build)
    /\ UNCHANGED <<buildVars, snapshotVars, invocationVars, formatVars,
                   target_column_id, filter_result>>

CallFilterAndCalculateSegments ==
    /\ filter_result = NotCalled
    /\ filter_result' = FilterAndCalculateSegments(all_segments, target_column_id,
                            ColumnNameOf(target_column_id), ColumnTypeOf(target_column_id),
                            block_alloc_size, debug_build)
    /\ UNCHANGED <<buildVars, snapshotVars, invocationVars, formatVars,
                   target_column_id, count_result>>

NextSegments == CallCountUniqueBlocks \/ CallFilterAndCalculateSegments

SpecSegments == InitSegments /\ [][NextSegments]_vars

----------------------------------------------------------------------------
(* FormatSize and FormatPercentage *)

\* digits of a number of tenths with one decimal place: 1005 is "100.5"
OneDecimal(tenths) == ToString(tenths \div 10) \o "." \o ToString(tenths % 10)

\* units[unit_idx]
UnitName(unit_idx) == <<"B", "KiB", "MiB", "GiB", "TiB">>[unit_idx + 1]

\* while (size >= 1024.0 && unit_idx < 4) { size /= 1024.0; unit_idx++; }
\* size is bytes / den, exactly: dividing a double by 1024 loses nothing
RECURSIVE ScaleLoop(_, _, _)
ScaleLoop(bytes, den, unit_idx) ==
    IF bytes \div den >= 1024 /\ unit_idx < 4
    THEN ScaleLoop(bytes, den * 1024, unit_idx + 1)
    ELSE [den |-> den, unit_idx |-> unit_idx]

\* "%.1f" of bytes / den for den a power of 1024 above 1: the number of tenths
\* nearest to the exact quotient, an exact tie going to the even one.  10 * bytes is
\* formed in two halves to stay inside TLC's integers.
SizeTenths(bytes, den) ==
    LET q == bytes \div den
        r == bytes % den
        dh == den \div 1024
        B == 10 * (r \div 1024) + (10 * (r % 1024)) \div 1024
        c == (10 * (r % 1024)) % 1024
        t == q * 10 + B \div dh
        rem == (B % dh) * 1024 + c
    IN  IF 2 * rem > den \/ (2 * rem = den /\ t % 2 = 1) THEN t + 1 ELSE t

\* FormatSize(idx_t bytes).  A held number below zero is a byte count of 2^64 - n
\* with n below 2^31: its double is within 2^31 of 2^64, four divisions by 1024
\* stop at TiB and leave 2^24 - n / 2^40, printed as 16777216.0
FormatSize(bytes) ==
    IF bytes < 0 THEN "16777216.0 TiB"
    ELSE LET s == ScaleLoop(bytes, 1, 0)
         IN  IF s.unit_idx = 0
             THEN ToString(bytes) \o " " \o UnitName(0)
             ELSE OneDecimal(SizeTenths(bytes, s.den)) \o " " \o UnitName(s.unit_idx)

\* variant: the quotient is scaled to per cent but not to tenths
PercentTenths_NotScaled(blocks, total_blocks) == (blocks * 100) \div total_blocks

\* variant: the digits after the first decimal are cut off
PercentTenths_RoundsDown(blocks, total_blocks) == (blocks * 1000) \div total_blocks

\* "%.1f" of blocks * 100.0 / total_blocks for a count below 2^63: the number of
\* tenths nearest to the quotient, an exact tie going to the even one (a tie is a
\* binary fraction, hence exact in a double, for every total below 2000)
PercentTenths(blocks, total_blocks) ==
    LET n == blocks * 1000
        t == n \div total_blocks
        rem == n % total_blocks
    IN  IF 2 * rem > total_blocks \/ (2 * rem = total_blocks /\ t % 2 = 1)
        THEN t + 1 ELSE t

\* "%.1f%%" of double(2^64 - n) * 100.0 / total_blocks for n up to 1024, where
\* double(2^64 - n) is 2^64: the digits of the double nearest to 25 * 2^66 / total_blocks
WrappedPercent(total_blocks) ==
    <<"1844674407370955161600.0%", "922337203685477580800.0%",
      "614891469123651764224.0%", "461168601842738790400.0%",
      "368934881474191032320.0%", "307445734561825882112.0%",
      "263524915338707894272.0%", "230584300921369395200.0%",
      "204963823041217232896.0%", "184467440737095516160.0%",
      "167697673397359575040.0%", "153722867280912941056.0%",
      "141898031336227323904.0%", "131762457669353947136.0%",
      "122978293824730349568.0%", "115292150460684697600.0%">>[total_blocks]

\* variant: no guard, the division by 0.0 gives nan or inf
FormatPercentage_Unguarded(blocks, total_blocks) ==
    IF total_blocks = 0 THEN (IF blocks = 0 THEN "nan%" ELSE "inf%")
    ELSE IF blocks < 0 THEN WrappedPercent(total_blocks)
    ELSE OneDecimal(PercentTenths(blocks, total_blocks)) \o "%"

FormatPercentage(blocks, total_blocks) ==
    IF total_blocks = 0 THEN "0.0%"
    ELSE IF blocks < 0 THEN WrappedPercent(total_blocks)
    ELSE OneDecimal(PercentTenths(blocks, total_blocks)) \o "%"

----------------------------------------------------------------------------
(* FormatSize over the whole range of idx_t *)

\* A byte count beyond TLC's integers is held in three limbs: the value is
\* h * 2^40 + m * 2^20 + l with m, l < 2^20 and h < 2^24 (h = 2^24 is 2^64,
\* which only the double of a value near 2^64 reaches)
Limb == 1048576
Wide(h, m, l) == [h |-> h, m |-> m, l |-> l]

\* the limbs of a held number that is not wrapped
ToWide(n) == Wide(0, n \div Limb, n % Limb)

RECURSIVE BitLen(_)
BitLen(n) == IF n = 0 THEN 0 ELSE 1 + BitLen(n \div 2)

RECURSIVE Pow2(_)
Pow2(d) == IF d = 0 THEN 1 ELSE 2 * Pow2(d - 1)

\* limbs after the carries have moved up
Normalize(h, m, l) ==
    LET m2 == m + l \div Limb
    IN  Wide(h + m2 \div Limb, m2 % Limb, l % Limb)

\* static_cast<double>(bytes): exact below 2^53; above, the nearest number with
\* 53 significant bits, a tie going to the even one
DoubleOf(w) ==
    IF w.h < 8192 THEN w
    ELSE LET p == Pow2(BitLen(w.h) - 13)
             lo == w.l % p
             keep == w.l - lo
             up == 2 * lo > p \/ (2 * lo = p /\ (w.l \div p) % 2 = 1)
         IN  Normalize(w.h, w.m, IF up THEN keep + p ELSE keep)

\* size >= 1024.0 after unit_idx divisions by 1024 (each division is exact)
AtLeast1024(d, unit_idx) ==
    CASE unit_idx = 0 -> d.h > 0 \/ d.m > 0 \/ d.l >= 1024
      [] unit_idx = 1 -> d.h > 0 \/ d.m > 0
      [] unit_idx = 2 -> d.h > 0 \/ d.m >= 1024
      [] unit_idx = 3 -> d.h > 0
      [] OTHER -> d.h >= 1024

\* variant: the loop stops one unit early
RECURSIVE WideScaleLoop_StopsAtGiB(_, _)
WideScaleLoop_StopsAtGiB(d, unit_idx) ==
    IF AtLeast1024(d, unit_idx) /\ unit_idx < 3
    THEN WideScaleLoop_StopsAtGiB(d, unit_idx + 1)
    ELSE unit_idx

\* while (size >= 1024.0 && unit_idx < 4) { size /= 1024.0; unit_idx++; }
RECURSIVE WideScaleLoop(_, _)
WideScaleLoop(d, unit_idx) ==
    IF AtLeast1024(d, unit_idx) /\ unit_idx < 4
    THEN WideScaleLoop(d, unit_idx + 1)
    ELSE unit_idx

\* ten times the value
TimesTen(d) == Normalize(10 * d.h, 10 * d.m, 10 * d.l)

\* 10 * d divided by 1024^unit_idx: the quotient q, the remainder rhi * 2^20 + rlo
\* and half the divisor hhi * 2^20 + hlo
QuotRem(d, unit_idx) ==
    LET x == TimesTen(d)
    IN  CASE unit_idx = 4 ->
               [q |-> x.h, rhi |-> x.m, rlo |-> x.l, hhi |-> Limb \div 2, hlo |-> 0]
          [] unit_idx = 3 ->
               [q |-> x.h * 1024 + x.m \div 1024, rhi |-> x.m % 1024, rlo |-> x.l,
                hhi |-> 512, hlo |-> 0]
          [] unit_idx = 2 ->
               [q |-> x.h * Limb + x.m, rhi |-> 0, rlo |-> x.l,
                hhi |-> 0, hlo |-> Limb \div 2]
          [] OTHER ->
               [q |-> x.m * 1024 + x.l \div 1024, rhi |-> 0, rlo |-> x.l % 1024,
                hhi |-> 0, hlo |-> 512]

\* variant: the digits after the first decimal are cut off
WideTenths_Truncating(d, unit_idx) == QuotRem(d, unit_idx).q

\* "%.1f" of d / 1024^unit_idx: the number of tenths nearest to the exact value,
\* an exact tie going to the even one
WideTenths(d, unit_idx) ==
    LET x == QuotRem(d, unit_idx)
        above == x.rhi > x.hhi \/ (x.rhi = x.hhi /\ x.rlo > x.hlo)
        tie == x.rhi = x.hhi /\ x.rlo = x.hlo
    IN  IF above \/ (tie /\ x.q % 2 = 1) THEN x.q + 1 ELSE x.q

\* variant: every unit is printed with "%.1f"
FormatSize64_AlwaysOneDecimal(w) ==
    LET d == DoubleOf(w)
        unit_idx == WideScaleLoop(d, 0)
    IN  IF unit_idx = 0 THEN OneDecimal(10 * d.l) \o " " \o UnitName(0)
        ELSE OneDecimal(WideTenths(d, unit_idx)) \o " " \o UnitName(unit_idx)

\* FormatSize(idx_t bytes) for a byte count given in limbs
FormatSize64(w) ==
    LET d == DoubleOf(w)
        unit_idx == WideScaleLoop(d, 0)
    IN  IF unit_idx = 0 THEN ToString(d.l) \o " " \o UnitName(0)
        ELSE OneDecimal(WideTenths(d, unit_idx)) \o " " \o UnitName(unit_idx)

----------------------------------------------------------------------------
(* Specification of single calls of the two formatters *)

\* byte counts from 0 to 2^64 - 1, around every power of 1024 and around 2^53
ByteSamples ==
    {Wide(h, m, l) : h \in {0, 1, 2, 1023, 1024, 8192, 8193, 16777215},
                     m \in {0, 1, 512, 1023, 1024, 1536, Limb - 1},
                     l \in {0, 1, 1023, 1024, 1279, 1280, 1536, Limb \div 2, Limb - 1}}

\* block counts and totals of small files, and the per cent cases
PercentageSamples ==
    {<<b, t>> : b \in 0..12, t \in 0..12} \cup {<<0, 100>>, <<50, 100>>, <<100, 100>>}

FormatInputs ==
    {[function |-> "FormatSize", bytes |-> w] : w \in ByteSamples}
    \cup {[function |-> "FormatPercentage", blocks |-> p[1], total_blocks |-> p[2]] :
             p \in PercentageSamples}

InitFormat ==
    /\ debug_build \in BOOLEAN
    /\ vector_size = 2048
    /\ all_segments = <<>>
    /\ block_alloc_size = 262144
    /\ catalog = EmptyCatalog
    /\ database_size = EmptyDatabaseSize
    /\ metadata_info = <<>>
    /\ target_column_id = 0
    /\ count_result = NotCalled
    /\ filter_result = NotCalled
    /\ databases = <<>>
    /\ NoInvocation
    /\ format_input \in FormatInputs
    /\ format_result = NotCalled

CallFormatSize ==
    /\ format_input.function = "FormatSize"
    /\ format_result = NotCalled
    /\ format_result' = Returned(FormatSize64(format_input.bytes))
    /\ UNCHANGED <<buildVars, snapshotVars, segmentVars, invocationVars, format_input>>

CallFormatPercentage ==
    /\ format_input.function = "FormatPercentage"
    /\ format_result = NotCalled
    /\ format_result' = Returned(FormatPercentage(format_input.blocks,
                                                  format_input.total_blocks))
    /\ UNCHANGED <<buildVars, snapshotVars, segmentVars, invocationVars, format_input>>

NextFormat == CallFormatSize \/ CallFormatPercentage

SpecFormat == InitFormat /\ [][NextFormat]_vars

----------------------------------------------------------------------------
(* inspect_storage_summary: the catalogs it can be pointed at *)

\* INVALID_CATALOG: the empty name, "the current database"
INVALID_CATALOG == ""
DatabaseNames == {INVALID_CATALOG, "mydb"}

\* variant: no schema is taken to be internal
IsDefaultSchema_None(name) == FALSE

\* DefaultSchemaGenerator::IsDefaultSchema
IsDefaultSchema(name) == name \in {"information_schema", "pg_catalog"}

Schema(name, tables) == [name |-> name, tables |-> tables]

\* tables of the catalogs: segment lists over blocks 1, 2 and 3
TableOneBlock == MakeTable(<<Shape(0, MainPath(0), TRUE, 1, 0, <<>>),
                            Shape(0, ValidityPath(0), TRUE, 1, 100, <<>>)>>)
TableSpilling == MakeTable(<<Shape(0, MainPath(0), TRUE, 2, 0, <<3>>),
                            Shape(1, MainPath(1), FALSE, 1, 0, <<>>),
                            Shape(1, MainPath(1), TRUE, INVALID_BLOCK, 0, <<>>)>>)
TableSharing == MakeTable(<<Shape(0, MainPath(0), TRUE, 1, 250, <<>>),
                           Shape(1, MainPath(1), TRUE, 3, 0, <<>>)>>)
TableSentinel == MakeTable(<<Shape(0, MainPath(0), TRUE, 1, 0, <<INVALID_BLOCK>>)>>)

SchemaLists ==
    {<<>>,
     <<Schema("main", <<>>)>>,
     <<Schema("main", <<TableOneBlock>>)>>,
     <<Schema("main", <<TableOneBlock, TableSpilling>>)>>,
     <<Schema("main", <<TableSpilling>>), Schema("other", <<TableSharing, TableOneBlock>>)>>,
     <<Schema("pg_catalog", <<TableSpilling>>), Schema("main", <<TableOneBlock>>)>>,
     <<Schema("main", <<TableSentinel>>)>>}

Catalogs == [in_memory : BOOLEAN, schemas : SchemaLists]

DatabaseSizes ==
    [total_blocks : 0..MaxTotalBlocks, free_blocks : 0..MaxFreeBlocks, block_size : {262144}]

\* vector<MetadataBlockInfo>: n entries, one per metadata block
MetadataInfos == {[k \in 1..n |-> [block_id |-> 100 + k]] : n \in 0..MaxMetadataBlocks}

----------------------------------------------------------------------------
(* inspect_storage_summary: bind, init, execute *)

\* CollectTableDataBlocks: the loop over one table's segment_info
RECURSIVE CollectSegments(_, _, _, _)
CollectSegments(segs, i, acc, debug) ==
    IF acc.status # "ok" \/ i > Len(segs) THEN acc
    ELSE IF segs[i].persistent /\ segs[i].block_id # INVALID_BLOCK
         THEN CollectSegments(segs, i + 1,
                  InsertAdditional(segs[i].additional_blocks, 1,
                      Returned(acc.value \cup {segs[i].block_id}), debug), debug)
         ELSE CollectSegments(segs, i + 1, acc, debug)

\* schema.Scan(TABLE_ENTRY, ...): every table of one schema
RECURSIVE CollectTables(_, _, _, _)
CollectTables(tables, t, acc, debug) ==
    IF acc.status # "ok" \/ t > Len(tables) THEN acc
    ELSE CollectTables(tables, t + 1, CollectSegments(tables[t], 1, acc, debug), debug)

\* the loop over the schemas, skipping the internal ones
RECURSIVE CollectSchemas(_, _, _, _)
CollectSchemas(schemas, k, acc, debug) ==
    IF acc.status # "ok" \/ k > Len(schemas) THEN acc
    ELSE IF IsDefaultSchema(schemas[k].name)
         THEN CollectSchemas(schemas, k + 1, acc, debug)
         ELSE CollectSchemas(schemas, k + 1,
                  CollectTables(schemas[k].tables, 1, acc, debug), debug)

CollectTableDataBlocks(cat, debug) ==
    LET u == CollectSchemas(cat.schemas, 1, Returned({}), debug)
    IN  IF u.status = "ok" THEN Returned(Cardinality(u.value)) ELSE u

CountMetadataBlocks(info) == Len(info)

\* variant: size_bytes is left at the block count
StorageSummaryEntry_SizeInBlocks(component, block_count, alloc, total_blocks) ==
    [component |-> component,
     block_count |-> block_count,
     size_bytes |-> block_count,
     percentage |-> FormatPercentage(block_count, total_blocks)]

StorageSummaryEntry(component, block_count, alloc, total_blocks) ==
    [component |-> component,
     block_count |-> block_count,
     size_bytes |-> block_count * alloc,
     percentage |-> FormatPercentage(block_count, total_blocks)]

\* variant: the free blocks are not subtracted
IndexBlocks_KeepsFree(total_blocks, table_data_blocks, metadata_blocks, free_blocks) ==
    total_blocks - table_data_blocks - metadata_blocks

\* index_blocks = total_blocks - table_data_blocks - metadata_blocks - free_blocks,
\* in idx_t arithmetic: below zero here is a value wrapped around 2^64
IndexBlocks(total_blocks, table_data_blocks, metadata_blocks, free_blocks) ==
    total_blocks - table_data_blocks - metadata_blocks - free_blocks

\* variant: the metadata entry is pushed before the index entry
BuildEntries_MetadataFirst(ds, metadata_blocks, table_data_blocks) ==
    LET total_blocks == ds.total_blocks
        free_blocks == ds.free_blocks
        alloc == ds.block_size
        index_blocks == IndexBlocks(total_blocks, table_data_blocks, metadata_blocks,
                                    free_blocks)
    IN  <<StorageSummaryEntry("table_data", table_data_blocks, alloc, total_blocks),
          StorageSummaryEntry("metadata", metadata_blocks, alloc, total_blocks),
          StorageSummaryEntry("index", index_blocks, alloc, total_blocks),
          StorageSummaryEntry("free_blocks", free_blocks, alloc, total_blocks),
          StorageSummaryEntry("total", total_blocks, alloc, total_blocks)>>

\* the five entries InspectStorageSummaryInit pushes, in push order
BuildEntries(ds, metadata_blocks, table_data_blocks) ==
    LET total_blocks == ds.total_blocks
        free_blocks == ds.free_blocks
        alloc == ds.block_size
        index_blocks == IndexBlocks(total_blocks, table_data_blocks, metadata_blocks,
                                    free_blocks)
    IN  <<StorageSummaryEntry("table_data", table_data_blocks, alloc, total_blocks),
          StorageSummaryEntry("index", index_blocks, alloc, total_blocks),
          StorageSummaryEntry("metadata", metadata_blocks, alloc, total_blocks),
          StorageSummaryEntry("free_blocks", free_blocks, alloc, total_blocks),
          StorageSummaryEntry("total", total_blocks, alloc, total_blocks)>>

\* InspectStorageSummaryBindWithDatabase / InspectStorageSummaryBindCurrentDB
InspectStorageSummaryBind(i) ==
    /\ pc[i] = "start"
    /\ function_name' = [function_name EXCEPT ![i] = "inspect_storage_summary"]
    /\ \E name \in DatabaseNames :
           /\ inputs' = [inputs EXCEPT ![i] =
                             IF name = INVALID_CATALOG THEN <<>> ELSE <<name>>]
           /\ bind_data' = [bind_data EXCEPT ![i] = [database_name |-> name]]
    /\ pc' = [pc EXCEPT ![i] = "bound"]
    /\ UNCHANGED <<buildVars, snapshotVars, segmentVars, formatVars,
                   entries, offset, output, emitted, error, pulls>>

InspectStorageSummaryInit(i) ==
    /\ pc[i] = "bound"
    /\ LET table_data_blocks == CollectTableDataBlocks(catalog, debug_build)
       IN  IF catalog.in_memory
           THEN /\ error' = [error EXCEPT ![i] = "invalid_input"]
                /\ pc' = [pc EXCEPT ![i] = "failed"]
                /\ UNCHANGED entries
           ELSE IF table_data_blocks.status # "ok"
           THEN /\ error' = [error EXCEPT ![i] = table_data_blocks.status]
                /\ pc' = [pc EXCEPT ![i] = "failed"]
                /\ UNCHANGED entries
           ELSE /\ entries' = [entries EXCEPT ![i] =
                       BuildEntries(database_size, CountMetadataBlocks(metadata_info),
                                    table_data_blocks.value)]
                /\ pc' = [pc EXCEPT ![i] = "ready"]
                /\ UNCHANGED error
    /\ offset' = [offset EXCEPT ![i] = 0]
    /\ UNCHANGED <<buildVars, snapshotVars, segmentVars, formatVars,
                   function_name, inputs, bind_data, output, emitted, pulls>>

\* positions the while loop of one Execute call visits when nothing throws
BatchPositions(off, n, vsize) ==
    {k \in off + 1 .. n : k - off <= vsize}

\* NumericCast<int64_t>(idx_t) throws when the value is 2^63 or more
CastFails(v) == v < 0

SummaryRow(entry) ==
    [component |-> entry.component,
     size |-> FormatSize(entry.size_bytes),
     percentage |-> entry.percentage,
     block_count |-> entry.block_count]

\* variant: Execute removes from the entry list what it has handed out
InspectStorageSummaryExecute_Consuming(i) ==
    /\ pc[i] \in {"ready", "exhausted"}
    /\ pulls[i] < MaxPulls
    /\ pulls' = [pulls EXCEPT ![i] = @ + 1]
    /\ LET batch == BatchPositions(offset[i], Len(entries[i]), vector_size)
           bad == {k \in batch : CastFails(entries[i][k].block_count)}
       IN  IF bad # {}
           THEN \* the rows before the first failing one advanced the cursor;
                \* the exception leaves no chunk to the consumer
                LET first == CHOOSE k \in bad : \A m \in bad : k <= m
                IN  /\ offset' = [offset EXCEPT ![i] = first - 1]
                    /\ output' = [output EXCEPT ![i] = <<>>]
                    /\ error' = [error EXCEPT ![i] = "internal_error"]
                    /\ pc' = [pc EXCEPT ![i] = "failed"]
                    /\ UNCHANGED emitted
           ELSE LET rows == [k \in 1..Cardinality(batch) |->
                                SummaryRow(entries[i][offset[i] + k])]
                IN  /\ offset' = [offset EXCEPT ![i] = @ + Len(rows)]
                    /\ output' = [output EXCEPT ![i] = rows]
                    /\ emitted' = [emitted EXCEPT ![i] = @ \o rows]
                    /\ pc' = [pc EXCEPT ![i] = IF rows = <<>> THEN "exhausted" ELSE "ready"]
                    /\ UNCHANGED error
    /\ entries' = [entries EXCEPT ![i] = SubSeq(@, offset'[i] + 1, Len(@))]
    /\ UNCHANGED <<buildVars, snapshotVars, segmentVars, formatVars,
                   function_name, inputs, bind_data>>

\* variant: the call that finds nothing left puts the cursor back to the start
InspectStorageSummaryExecute_Rewinding(i) ==
    /\ pc[i] \in {"ready", "exhausted"}
    /\ pulls[i] < MaxPulls
    /\ pulls' = [pulls EXCEPT ![i] = @ + 1]
    /\ LET batch == BatchPositions(offset[i], Len(entries[i]), vector_size)
           bad == {k \in batch : CastFails(entries[i][k].block_count)}
       IN  IF bad # {}
           THEN \* the rows before the first failing one advanced the cursor;
                \* the exception leaves no chunk to the consumer
                LET first == CHOOSE k \in bad : \A m \in bad : k <= m
                IN  /\ offset' = [offset EXCEPT ![i] = first - 1]
                    /\ output' = [output EXCEPT ![i] = <<>>]
                    /\ error' = [error EXCEPT ![i] = "internal_error"]
                    /\ pc' = [pc EXCEPT ![i] = "failed"]
                    /\ UNCHANGED emitted
           ELSE LET rows == [k \in 1..Cardinality(batch) |->
                                SummaryRow(entries[i][offset[i] + k])]
                IN  /\ offset' = [offset EXCEPT ![i] = IF rows = <<>> THEN 0 ELSE @ + Len(rows)]
                    /\ output' = [output EXCEPT ![i] = rows]
                    /\ emitted' = [emitted EXCEPT ![i] = @ \o rows]
                    /\ pc' = [pc EXCEPT ![i] = IF rows = <<>> THEN "exhausted" ELSE "ready"]
                    /\ UNCHANGED error
    /\ UNCHANGED <<buildVars, snapshotVars, segmentVars, formatVars,
                   function_name, inputs, bind_data, entries>>

\* variant: one cursor kept for all invocations instead of one per global state
InspectStorageSummaryExecute_SharedCursor(i) ==
    /\ pc[i] \in {"ready", "exhausted"}
    /\ pulls[i] < MaxPulls
    /\ pulls' = [pulls EXCEPT ![i] = @ + 1]
    /\ LET batch == BatchPositions(offset[1], Len(entries[i]), vector_size)
           bad == {k \in batch : CastFails(entries[i][k].block_count)}
       IN  IF bad # {}
           THEN \* the rows before the first failing one advanced the cursor;
                \* the exception leaves no chunk to the consumer
                LET first == CHOOSE k \in bad : \A m \in bad : k <= m
                IN  /\ offset' = [offset EXCEPT ![1] = first - 1]
                    /\ output' = [output EXCEPT ![i] = <<>>]
                    /\ error' = [error EXCEPT ![i] = "internal_error"]
                    /\ pc' = [pc EXCEPT ![i] = "failed"]
                    /\ UNCHANGED emitted
           ELSE LET rows == [k \in 1..Cardinality(batch) |->
                                SummaryRow(entries[i][offset[1] + k])]
                IN  /\ offset' = [offset EXCEPT ![1] = @ + Len(rows)]
                    /\ output' = [output EXCEPT ![i] = rows]
                    /\ emitted' = [emitted EXCEPT ![i] = @ \o rows]
                    /\ pc' = [pc EXCEPT ![i] = IF rows = <<>> THEN "exhausted" ELSE "ready"]
                    /\ UNCHANGED error
    /\ UNCHANGED <<buildVars, snapshotVars, segmentVars, formatVars,
                   function_name, inputs, bind_data, entries>>

InspectStorageSummaryExecute(i) ==
    /\ pc[i] \in {"ready", "exhausted"}
    /\ pulls[i] < MaxPulls
    /\ pulls' = [pulls EXCEPT ![i] = @ + 1]
    /\ LET batch == BatchPositions(offset[i], Len(entries[i]), vector_size)
           bad == {k \in batch : CastFails(entries[i][k].block_count)}
       IN  IF bad # {}
           THEN \* the rows before the first failing one advanced the cursor;
                \* the exception leaves no chunk to the consumer
                LET first == CHOOSE k \in bad : \A m \in bad : k <= m
                IN  /\ offset' = [offset EXCEPT ![i] = first - 1]
                    /\ output' = [output EXCEPT ![i] = <<>>]
                    /\ error' = [error EXCEPT ![i] = "internal_error"]
                    /\ pc' = [pc EXCEPT ![i] = "failed"]
                    /\ UNCHANGED emitted
           ELSE LET rows == [k \in 1..Cardinality(batch) |->
                                SummaryRow(entries[i][offset[i] + k])]
                IN  /\ offset' = [offset EXCEPT ![i] = @ + Len(rows)]
                    /\ output' = [output EXCEPT ![i] = rows]
                    /\ emitted' = [emitted EXCEPT ![i] = @ \o rows]
                    /\ pc' = [pc EXCEPT ![i] = IF rows = <<>> THEN "exhausted" ELSE "ready"]
                    /\ UNCHANGED error
    /\ UNCHANGED <<buildVars, snapshotVars, segmentVars, formatVars,
                   function_name, inputs, bind_data, entries>>

InitSummary ==
    /\ debug_build \in BOOLEAN
    /\ vector_size \in VectorSizes
    /\ all_segments = <<>>
    /\ block_alloc_size = 262144
    /\ catalog \in Catalogs
    /\ database_size \in DatabaseSizes
    /\ metadata_info \in MetadataInfos
    /\ target_column_id = 0
    /\ count_result = NotCalled
    /\ filter_result = NotCalled
    /\ databases = <<>>
    /\ NoInvocation
    /\ NoFormatCall

NextSummary ==
    \/ InspectStorageSummaryBind(1)
    \/ InspectStorageSummaryInit(1)
    \/ InspectStorageSummaryExecute(1)

SpecSummary == InitSummary /\ [][NextSummary]_vars

\* two connections call inspect_storage_summary on the same database; the
\* scheduler interleaves their bind, init and Execute calls in any order
NextInterleaved ==
    \E i \in Invocations :
        \/ InspectStorageSummaryBind(i)
        \/ InspectStorageSummaryInit(i)
        \/ InspectStorageSummaryExecute(i)

SpecInterleaved == InitSummary /\ [][NextInterleaved]_vars

----------------------------------------------------------------------------
(* inspect_column: bind, init, execute *)

\* TypeIsConstantSize(type.InternalType())
TypeIsConstantSize(type) == type \in {"INTEGER", "BIGINT"}

\* GetTypeIdSize(type.InternalType()) of a constant-size type
GetTypeIdSize(type) == IF type = "BIGINT" THEN 8 ELSE 4

CalculateEstimatedDecompressedSize(type, row_count) ==
    IF ~TypeIsConstantSize(type) THEN 0
    ELSE GetTypeIdSize(type) * row_count

\* the names a caller can pass: the table and its columns, and names that resolve to nothing
TableNames == {"t", "no_such_table"}
ColumnNames == {TableColumns[k].name : k \in DOMAIN TableColumns} \cup {"no_such_column"}

\* columns.ColumnExists(column_name)
ColumnExists(column_name) == \E k \in DOMAIN TableColumns : TableColumns[k].name = column_name

\* columns.GetColumn(column_name).Physical().index
PhysicalIndex(column_name) ==
    (CHOOSE k \in DOMAIN TableColumns : TableColumns[k].name = column_name) - 1

\* segment shapes of the inspected table
ColumnShapes ==
    {Shape(0, MainPath(0), TRUE, 1, 0, <<>>),
     Shape(0, MainPath(0), TRUE, 1, 100, <<>>),
     Shape(0, MainPath(0), TRUE, 2, 0, <<3>>),
     Shape(0, MainPath(0), TRUE, 1, 100, <<2, 3>>),
     Shape(0, ValidityPath(0), TRUE, 1, 250, <<>>),
     Shape(1, MainPath(1), TRUE, 1, 250, <<>>),
     Shape(0, MainPath(0), FALSE, 1, 250, <<>>),
     Shape(0, MainPath(0), TRUE, INVALID_BLOCK, 0, <<>>)}

\* row counts of the last row group: empty or partial
LastRowCounts == {0, 8480}

WithLastRowCount(segs, n) ==
    [k \in DOMAIN segs |-> IF k = Len(segs) THEN [segs[k] EXCEPT !.segment_count = n]
                           ELSE segs[k]]

ColumnSnapshots ==
    {WithLastRowCount(MakeTable(sh), n) :
        sh \in {x \in SeqUpTo(ColumnShapes, MaxSegs) : DistinctPlaces(x)},
        n \in LastRowCounts}

\* the segments of a table of an in-memory database: nothing is checkpointed to a block
Transient(segs) == [k \in DOMAIN segs |-> [segs[k] EXCEPT !.persistent = FALSE]]

\* variant: the missing column is reported like a missing catalog entry
ColumnNotFound_AsCatalogError == "catalog_error"

\* throw InvalidInputException("Column '%s' not found in table '%s'", ...)
ColumnNotFound == "invalid_input"

InspectColumnBind(i) ==
    /\ pc[i] = "start"
    /\ function_name' = [function_name EXCEPT ![i] = "inspect_column"]
    /\ \E database_name \in DatabaseNames \ {INVALID_CATALOG},
          table_name \in TableNames, column_name \in ColumnNames :
         /\ inputs' = [inputs EXCEPT ![i] = <<database_name, table_name, column_name>>]
         /\ IF table_name # "t"
            THEN \* Catalog::GetEntry throws
                 /\ error' = [error EXCEPT ![i] = "catalog_error"]
                 /\ pc' = [pc EXCEPT ![i] = "failed"]
                 /\ UNCHANGED bind_data
            ELSE IF ~ColumnExists(column_name)
            THEN /\ error' = [error EXCEPT ![i] = ColumnNotFound]
                 /\ pc' = [pc EXCEPT ![i] = "failed"]
                 /\ UNCHANGED bind_data
            ELSE LET target == PhysicalIndex(column_name)
                     column_type == ColumnTypeOf(target)
                     filtered == FilterAndCalculateSegments(all_segments, target, column_name,
                                     column_type, block_alloc_size, debug_build)
                 IN  IF filtered.status # "ok"
                     THEN /\ error' = [error EXCEPT ![i] = filtered.status]
                          /\ pc' = [pc EXCEPT ![i] = "failed"]
                          /\ UNCHANGED bind_data
                     ELSE /\ bind_data' = [bind_data EXCEPT ![i] =
                                 [database_name |-> database_name,
                                  table_name |-> table_name,
                                  column_name |-> column_name,
                                  column_type |-> column_type,
                                  filtered_segments |-> filtered.value]]
                          /\ pc' = [pc EXCEPT ![i] = "bound"]
                          /\ UNCHANGED error
    /\ UNCHANGED <<buildVars, snapshotVars, segmentVars, formatVars,
                   entries, offset, output, emitted, pulls>>

InspectColumnInit(i) ==
    /\ pc[i] = "bound"
    /\ offset' = [offset EXCEPT ![i] = 0]
    /\ pc' = [pc EXCEPT ![i] = "ready"]
    /\ UNCHANGED <<buildVars, snapshotVars, segmentVars, formatVars,
                   function_name, inputs, bind_data, entries, output, emitted, error, pulls>>

ColumnRow(entry) ==
    LET total_compressed_size == entry.compressed_size + entry.additional_blocks_size
        estimated_size == CalculateEstimatedDecompressedSize(entry.column_type,
                                                             entry.row_count)
    IN  [row_group_id |-> entry.row_group_index,
         column_name |-> entry.column_name,
         column_type |-> entry.column_type,
         compression |-> entry.compression_type,
         compressed_size |-> FormatSize(total_compressed_size),
         estimated_decompressed_size |->
             IF estimated_size > 0 THEN FormatSize(estimated_size) ELSE "N/A",
         row_count |-> entry.row_count]

InspectColumnExecute(i) ==
    /\ pc[i] \in {"ready", "exhausted"}
    /\ pulls[i] < MaxPulls
    /\ pulls' = [pulls EXCEPT ![i] = @ + 1]
    /\ LET segs == bind_data[i].filtered_segments
           batch == BatchPositions(offset[i], Len(segs), vector_size)
           bad == {k \in batch : CastFails(segs[k].row_group_index)
                                    \/ CastFails(segs[k].row_count)}
       IN  IF bad # {}
           THEN LET first == CHOOSE k \in bad : \A m \in bad : k <= m
                IN  /\ offset' = [offset EXCEPT ![i] = first - 1]
                    /\ output' = [output EXCEPT ![i] = <<>>]
                    /\ error' = [error EXCEPT ![i] = "internal_error"]
                    /\ pc' = [pc EXCEPT ![i] = "failed"]
                    /\ UNCHANGED emitted
           ELSE LET rows == [k \in 1..Cardinality(batch) |-> ColumnRow(segs[offset[i] + k])]
                IN  /\ offset' = [offset EXCEPT ![i] = @ + Len(rows)]
                    /\ output' = [output EXCEPT ![i] = rows]
                    /\ emitted' = [emitted EXCEPT ![i] = @ \o rows]
                    /\ pc' = [pc EXCEPT ![i] = IF rows = <<>> THEN "exhausted" ELSE "ready"]
                    /\ UNCHANGED error
    /\ UNCHANGED <<buildVars, snapshotVars, segmentVars, formatVars,
                   function_name, inputs, bind_data, entries>>

InitColumn ==
    /\ debug_build \in BOOLEAN
    /\ vector_size \in VectorSizes
    /\ block_alloc_size \in BlockAllocSizes
    /\ catalog \in [in_memory : BOOLEAN, schemas : {<<>>}]
    /\ all_segments \in IF catalog.in_memory
                        THEN {Transient(s) : s \in ColumnSnapshots}
                        ELSE ColumnSnapshots
    /\ database_size = EmptyDatabaseSize
    /\ metadata_info = <<>>
    /\ target_column_id = 0
    /\ count_result = NotCalled
    /\ filter_result = NotCalled
    /\ databases = <<>>
    /\ NoInvocation
    /\ NoFormatCall

NextColumn ==
    \/ InspectColumnBind(1)
    \/ InspectColumnInit(1)
    \/ InspectColumnExecute(1)

SpecColumn == InitColumn /\ [][NextColumn]_vars

----------------------------------------------------------------------------
(* inspect_storage(): the attached databases with their file and WAL sizes *)

\* most user databases attached next to the system and the temporary database
MaxDatabases == 2

\* the database instance always carries its system catalog and its temporary
\* database; both are kept in memory
SystemDatabase ==
    [name |-> "system", system |-> TRUE, temporary |-> FALSE, in_memory |-> TRUE,
     bytes |-> 0, wal_size |-> 0]
TemporaryDatabase ==
    [name |-> "temp", system |-> FALSE, temporary |-> TRUE, in_memory |-> TRUE,
     bytes |-> 0, wal_size |-> 0]

\* databases a user can attach: in memory, or backed by a file of whole blocks
\* with a write-ahead log beside it
UserDatabases ==
    {[name |-> "memory", system |-> FALSE, temporary |-> FALSE, in_memory |-> TRUE,
      bytes |-> 0, wal_size |-> 0]}
    \cup [name : {"mydb", "other"}, system : {FALSE}, temporary : {FALSE},
          in_memory : {FALSE}, bytes : {12288, 786432, 1610612736},
          wal_size : {0, 1536}]

DistinctNames(dbs) ==
    \A a, b \in DOMAIN dbs : dbs[a].name = dbs[b].name => a = b

\* DatabaseManager::GetDatabases: the attached databases in some order
AttachedDatabases ==
    {dbs \in UNION {[1..k -> UserDatabases \cup {SystemDatabase, TemporaryDatabase}] :
                       k \in 3 .. MaxDatabases + 2} :
        /\ DistinctNames(dbs)
        /\ \E k \in DOMAIN dbs : dbs[k] = SystemDatabase
        /\ \E k \in DOMAIN dbs : dbs[k] = TemporaryDatabase}

\* variant: only the system and the temporary database are left out
IsSkippedDatabase_IgnoresInMemory(db) == db.system \/ db.temporary

\* the condition of the continue statement
IsSkippedDatabase(db) == db.system \/ db.temporary \/ db.in_memory

DatabaseEntry(db) ==
    [database_name |-> db.name,
     database_file_size_bytes |-> db.bytes,
     wal_file_size_bytes |-> db.wal_size]

\* the for loop over the attached databases
RECURSIVE CollectDatabaseEntries(_)
CollectDatabaseEntries(dbs) ==
    IF dbs = <<>>
    THEN <<>>
    ELSE (IF IsSkippedDatabase(Head(dbs)) THEN <<>> ELSE <<DatabaseEntry(Head(dbs))>>)
         \o CollectDatabaseEntries(Tail(dbs))

\* bind takes no argument and keeps no bind data
InspectStorageBind(i) ==
    /\ pc[i] = "start"
    /\ function_name' = [function_name EXCEPT ![i] = "inspect_storage"]
    /\ inputs' = [inputs EXCEPT ![i] = <<>>]
    /\ pc' = [pc EXCEPT ![i] = "bound"]
    /\ UNCHANGED <<buildVars, snapshotVars, segmentVars, formatVars,
                   bind_data, entries, offset, output, emitted, error, pulls>>

InspectStorageInit(i) ==
    /\ pc[i] = "bound"
    /\ entries' = [entries EXCEPT ![i] = CollectDatabaseEntries(databases)]
    /\ offset' = [offset EXCEPT ![i] = 0]
    /\ pc' = [pc EXCEPT ![i] = "ready"]
    /\ UNCHANGED <<buildVars, snapshotVars, segmentVars, formatVars,
                   function_name, inputs, bind_data, output, emitted, error, pulls>>

StorageRow(entry) ==
    [database_name |-> entry.database_name,
     database_file_size |-> FormatSize(entry.database_file_size_bytes),
     wal_file_size |-> FormatSize(entry.wal_file_size_bytes)]

InspectStorageExecute(i) ==
    /\ pc[i] \in {"ready", "exhausted"}
    /\ pulls[i] < MaxPulls
    /\ pulls' = [pulls EXCEPT ![i] = @ + 1]
    /\ LET batch == BatchPositions(offset[i], Len(entries[i]), vector_size)
           rows == [k \in 1..Cardinality(batch) |-> StorageRow(entries[i][offset[i] + k])]
       IN  /\ offset' = [offset EXCEPT ![i] = @ + Len(rows)]
           /\ output' = [output EXCEPT ![i] = rows]
           /\ emitted' = [emitted EXCEPT ![i] = @ \o rows]
           /\ pc' = [pc EXCEPT ![i] = IF rows = <<>> THEN "exhausted" ELSE "ready"]
    /\ UNCHANGED <<buildVars, snapshotVars, segmentVars, formatVars,
                   function_name, inputs, bind_data, entries, error>>

InitStorage ==
    /\ debug_build \in BOOLEAN
    /\ vector_size \in VectorSizes
    /\ block_alloc_size = 262144
    /\ catalog = EmptyCatalog
    /\ all_segments = <<>>
    /\ database_size = EmptyDatabaseSize
    /\ metadata_info = <<>>
    /\ target_column_id = 0
    /\ count_result = NotCalled
    /\ filter_result = NotCalled
    /\ databases \in AttachedDatabases
    /\ NoInvocation
    /\ NoFormatCall

NextStorage ==
    \/ InspectStorageBind(1)
    \/ InspectStorageInit(1)
    \/ InspectStorageExecute(1)

SpecStorage == InitStorage /\ [][NextStorage]_vars

----------------------------------------------------------------------------
(* Registration of the table functions and the resolution of a call *)

\* argument counts of the overloads each Register...Function hands to the
\* loader; every argument is a VARCHAR
InspectColumnOverloads == {3}
InspectStorageOverloads == {0}
InspectDatabaseOverloads == {0}
InspectStorageSummaryOverloads == {0, 1}

\* the overloads the loader holds under a name once the extension is loaded
RegisteredOverloads(name) ==
    CASE name = "inspect_column" -> InspectColumnOverloads
      [] name = "inspect_storage" -> InspectStorageOverloads
      [] name = "inspect_database" -> InspectDatabaseOverloads
      [] name = "inspect_storage_summary" -> InspectStorageSummaryOverloads

\* calls with string literals as a client writes them: each function without a
\* database name and with one
TableFunctionCalls ==
    {[name |-> "inspect_database", arguments |-> <<>>],
     [name |-> "inspect_database", arguments |-> <<"mydb">>],
     [name |-> "inspect_column", arguments |-> <<"t", "a">>],
     [name |-> "inspect_column", arguments |-> <<"main.t", "a">>],
     [name |-> "inspect_column", arguments |-> <<"", "t", "a">>],
     [name |-> "inspect_column", arguments |-> <<"mydb", "t", "a">>],
     [name |-> "inspect_storage_summary", arguments |-> <<>>],
     [name |-> "inspect_storage_summary", arguments |-> <<"mydb">>],
     [name |-> "inspect_storage", arguments |-> <<>>],
     [name |-> "inspect_storage", arguments |-> <<"mydb">>]}

\* the binder picks the overload whose parameter list fits the arguments; with
\* none it reports that no function matches the given name and argument types
ResolveTableFunction(i) ==
    /\ pc[i] = "start"
    /\ \E call \in TableFunctionCalls :
           /\ function_name' = [function_name EXCEPT ![i] = call.name]
           /\ inputs' = [inputs EXCEPT ![i] = call.arguments]
           /\ IF Len(call.arguments) \in RegisteredOverloads(call.name)
              THEN /\ pc' = [pc EXCEPT ![i] = "resolved"]
                   /\ UNCHANGED error
              ELSE /\ pc' = [pc EXCEPT ![i] = "failed"]
                   /\ error' = [error EXCEPT ![i] = "binder_error"]
    /\ UNCHANGED <<buildVars, snapshotVars, segmentVars, formatVars,
                   bind_data, entries, offset, output, emitted, pulls>>

\* the extension is loaded into an instance with one user database attached
InitCalls ==
    /\ debug_build \in BOOLEAN
    /\ vector_size \in VectorSizes
    /\ block_alloc_size = 262144
    /\ catalog = EmptyCatalog
    /\ all_segments = <<>>
    /\ database_size = EmptyDatabaseSize
    /\ metadata_info = <<>>
    /\ target_column_id = 0
    /\ count_result = NotCalled
    /\ filter_result = NotCalled
    /\ databases \in {<<SystemDatabase, TemporaryDatabase, db>> : db \in UserDatabases}
    /\ NoInvocation
    /\ NoFormatCall

\* the statements of two connections are resolved in any order
NextCalls ==
    \E i \in Invocations : ResolveTableFunction(i)

SpecCalls == InitCalls /\ [][NextCalls]_vars

----------------------------------------------------------------------------
(* Properties of inspect_storage_summary *)

\* the entry list of invocation i has been built
Built(i) == entries[i] # <<>>

\* table_data_blocks + metadata_blocks + free_blocks <= total_blocks, with the
\* table data count read off the table_data entry
Reconciles(i) ==
    entries[i][1].block_count + Len(metadata_info) + database_size.free_blocks
        <= database_size.total_blocks

\* C1: when table_data_blocks + metadata_blocks + free_blocks <= total_blocks, the
\* index count is total - table_data - metadata - free (not wrapped), and the block
\* counts of the table_data, index, metadata and free_blocks rows add up to the
\* block count of the total row, in the entry list and in the rows handed out.
C1_BlockCountsReconcile ==
    \A i \in Invocations : (Built(i) /\ Reconciles(i)) =>
        LET e == entries[i]
            r == emitted[i]
        IN  /\ Len(e) = 5
            /\ e[3].block_count = Len(metadata_info)
            /\ e[4].block_count = database_size.free_blocks
            /\ e[5].block_count = database_size.total_blocks
            /\ e[2].block_count = database_size.total_blocks - e[1].block_count
                                      - Len(metadata_info) - database_size.free_blocks
            /\ e[2].block_count >= 0
            /\ e[1].block_count + e[2].block_count + e[3].block_count + e[4].block_count
                  = e[5].block_count
            /\ Len(r) = 5 =>
                  r[1].block_count + r[2].block_count + r[3].block_count + r[4].block_count
                      = r[5].block_count

\* C1 witness: all five rows handed out for a file whose four categories are all
\* non-empty
C1_Witness ==
    \E i \in Invocations :
        /\ Built(i) /\ Reconciles(i)
        /\ Len(emitted[i]) = 5
        /\ \A k \in 1..5 : emitted[i][k].block_count > 0

SampleCounts == -3 .. MaxTotalBlocks

ComponentOrder == <<"table_data", "index", "metadata", "free_blocks", "total">>

Components(rows) == [k \in DOMAIN rows |-> rows[k].component]

IsPrefix(s, t) == Len(s) <= Len(t) /\ \A k \in DOMAIN s : s[k] = t[k]

\* C4: init builds exactly five entries in the order table_data, index, metadata,
\* free_blocks, total; the rows handed out so far are always a prefix of that
\* order, whatever the vector size and the number of pulls, and they are all five
\* once a pull has returned an empty chunk.
C4_FiveRowsInFixedOrder ==
    \A i \in Invocations :
        /\ pc[i] \in {"ready", "exhausted"} => Components(entries[i]) = ComponentOrder
        /\ IsPrefix(Components(emitted[i]), ComponentOrder)
        /\ pc[i] = "exhausted" => Components(emitted[i]) = ComponentOrder

\* C4 witness: the five rows were handed out over several pulls
C4_Witness ==
    \E i \in Invocations :
        /\ pc[i] = "exhausted"
        /\ pulls[i] >= 4
        /\ Len(output[i]) = 0
        /\ Len(emitted[i]) = 5

\* C5: every entry's size_bytes is block_count * block_size (idx_t arithmetic), the
\* size handed out is the formatted product, and when the counts reconcile the
\* products are exact and the sizes of table_data, index, metadata and free_blocks
\* add up to the size of the total row.
C5_SizesAreBlocksTimesBlockSize ==
    \A i \in Invocations :
        /\ \A k \in DOMAIN entries[i] :
               entries[i][k].size_bytes = entries[i][k].block_count * database_size.block_size
        /\ \A k \in DOMAIN emitted[i] :
               emitted[i][k].size =
                   FormatSize(emitted[i][k].block_count * database_size.block_size)
        /\ (Built(i) /\ Reconciles(i)) =>
               LET e == entries[i]
               IN  /\ \A k \in 1..5 : e[k].size_bytes >= 0
                   /\ e[1].size_bytes + e[2].size_bytes + e[3].size_bytes + e[4].size_bytes
                         = e[5].size_bytes

\* C5 witness: the rows of a reconciling file with a non-empty index category
\* have been handed out
C5_Witness ==
    \E i \in Invocations :
        /\ Built(i) /\ Reconciles(i)
        /\ entries[i][2].size_bytes >= database_size.block_size
        /\ entries[i][5].size_bytes > entries[i][2].size_bytes
        /\ Len(emitted[i]) = 5

----------------------------------------------------------------------------
(* Properties of CountUniqueBlocks and FilterAndCalculateSegments *)

\* positions of the segments that are persistent with a valid primary block id
Contributing(segs) ==
    {i \in DOMAIN segs : segs[i].persistent /\ segs[i].block_id # INVALID_BLOCK}

\* the block ids segment i names: its primary id and its additional ids
IdsOf(seg) == {seg.block_id} \cup {seg.additional_blocks[j] : j \in DOMAIN seg.additional_blocks}

ContributingIds(segs) == UNION {IdsOf(segs[i]) : i \in Contributing(segs)}

SentinelInContributing(segs) ==
    \E i \in Contributing(segs) : INVALID_BLOCK \in
        {segs[i].additional_blocks[j] : j \in DOMAIN segs[i].additional_blocks}

\* the snapshot with the non-contributing segments removed
OnlyContributing(segs) ==
    SelectSeq(segs, LAMBDA s : s.persistent /\ s.block_id # INVALID_BLOCK)

\* C6: whenever CountUniqueBlocks returns, the count is the number of distinct
\* block ids among the primary and additional ids of the persistent segments with
\* a valid primary id (an id named several times is counted once), it is 0 for the
\* empty list, and the call returns whenever no counted additional id is the sentinel.
C6_CountsDistinctBlockIds ==
    count_result.status # "none" =>
        /\ count_result.status = "ok" =>
               count_result.value = Cardinality(ContributingIds(all_segments))
        /\ ~SentinelInContributing(all_segments) => count_result.status = "ok"
        /\ all_segments = <<>> => count_result = Returned(0)

\* C6 witness: a returned count over a snapshot in which two contributing
\* segments name the same block id
C6_Witness ==
    /\ count_result.status = "ok"
    /\ \E i, j \in Contributing(all_segments) :
           i < j /\ IdsOf(all_segments[i]) \cap IdsOf(all_segments[j]) # {}
    /\ count_result.value >= 2

\* number of times offset off is listed for block blk
TimesListed(offsets, off) == Cardinality({k \in DOMAIN offsets : offsets[k] = off})

\* C7: a segment that is not persistent or has the invalid primary id contributes
\* nothing: the block count and the filtered entries are those of the snapshot
\* without such segments, and each block's offset list holds exactly the offsets of
\* the contributing segments of that block.
C7_NonContributingIgnored ==
    /\ count_result.status # "none" =>
           count_result = CountUniqueBlocks(OnlyContributing(all_segments), debug_build)
    /\ filter_result.status # "none" =>
           /\ filter_result.status = "ok"
           /\ \A k \in DOMAIN filter_result.value :
                  LET e == filter_result.value[k]
                      seg == all_segments[e.row_group_index + 1]
                      offsets == BlockToAllOffsets(all_segments, seg.block_id)
                  IN  /\ e.row_group_index + 1 \in Contributing(all_segments)
                      /\ \A off \in {0, 100, 250} :
                             TimesListed(offsets, off) =
                                 Cardinality({i \in Contributing(all_segments) :
                                     /\ all_segments[i].block_id = seg.block_id
                                     /\ all_segments[i].block_offset = off})
                      /\ Len(offsets) =
                             Cardinality({i \in Contributing(all_segments) :
                                 all_segments[i].block_id = seg.block_id})

\* C7 witness: both functions have returned over a snapshot that holds a transient
\* segment placed behind a target segment in the same block, and a constant segment
C7_Witness ==
    /\ count_result.status = "ok"
    /\ filter_result.status = "ok"
    /\ Len(filter_result.value) >= 1
    /\ \E i, j \in DOMAIN all_segments :
           /\ ~all_segments[i].persistent
           /\ IsTargetMainDataSegment(all_segments[j], target_column_id)
           /\ all_segments[i].block_id = all_segments[j].block_id
           /\ all_segments[i].block_offset > all_segments[j].block_offset
    /\ \E i \in DOMAIN all_segments :
           all_segments[i].persistent /\ all_segments[i].block_id = INVALID_BLOCK

\* C8: block counting ends in an error whenever a counted segment's
\* additional-blocks list holds the invalid sentinel.
C8_FailsFastOnSentinel ==
    (count_result.status # "none" /\ SentinelInContributing(all_segments)) =>
        count_result.status = "internal_error"

\* offsets of the contributing segments of seg's block that lie behind seg
LaterOffsets(segs, seg) ==
    {segs[i].block_offset : i \in {i \in Contributing(segs) :
        /\ segs[i].block_id = seg.block_id
        /\ segs[i].block_offset > seg.block_offset}}

Minimum(S) == CHOOSE x \in S : \A y \in S : x <= y

\* C9: a qualifying target segment whose block holds a persistent segment at a
\* later offset has compressed size (next later offset) - (its own offset).
C9_NextLaterOffset ==
    filter_result.status = "ok" =>
        \A k \in DOMAIN filter_result.value :
            LET e == filter_result.value[k]
                seg == all_segments[e.row_group_index + 1]
                later == LaterOffsets(all_segments, seg)
            IN  later # {} => e.compressed_size = Minimum(later) - seg.block_offset

\* C10: a qualifying target segment that holds the last offset of its block has
\* compressed size (block allocation size) - (its own offset).
C10_LastOffsetBoundedByBlock ==
    filter_result.status = "ok" =>
        \A k \in DOMAIN filter_result.value :
            LET e == filter_result.value[k]
                seg == all_segments[e.row_group_index + 1]
            IN  LaterOffsets(all_segments, seg) = {} =>
                    e.compressed_size = block_alloc_size - seg.block_offset

----------------------------------------------------------------------------
(* Properties of FormatSize and FormatPercentage *)

\* the call of FormatSize under observation has returned
SizeFormatted == format_input.function = "FormatSize" /\ format_result.status = "ok"

\* the call of FormatPercentage under observation has returned
PercentageFormatted ==
    format_input.function = "FormatPercentage" /\ format_result.status = "ok"

\* w < 1024^k, for k = 1..6
WideLess(w, k) ==
    CASE k = 1 -> w.h = 0 /\ w.m = 0 /\ w.l < 1024
      [] k = 2 -> w.h = 0 /\ w.m = 0
      [] k = 3 -> w.h = 0 /\ w.m < 1024
      [] k = 4 -> w.h = 0
      [] k = 5 -> w.h < 1024
      [] OTHER -> w.h < Limb

\* the k with 1024^k <= w < 1024^(k+1), at most 4
UnitByMagnitude(w) ==
    IF WideLess(w, 1) THEN 0 ELSE IF WideLess(w, 2) THEN 1
    ELSE IF WideLess(w, 3) THEN 2 ELSE IF WideLess(w, 4) THEN 3 ELSE 4

\* "0 B" .. "1023 B"
ByteTexts == {ToString(n) \o " B" : n \in 0..1023}

\* per unit above B, the strings "1.0 <unit>" .. "1023.9 <unit>" and "1.0 <unit>" .. "1024.0 <unit>"
TextsBelow1024 == [k \in 1..4 |-> {OneDecimal(t) \o " " \o UnitName(k) : t \in 10..10239}]
TextsUpTo1024 == [k \in 1..4 |-> TextsBelow1024[k] \cup {"1024.0 " \o UnitName(k)}]

\* C16: FormatSize picks the unit by magnitude: B below 1024, the unit with index k
\* for 1024^k <= b < 1024^(k+1) (KiB, MiB, GiB), and TiB for every b >= 1024^4
C16_UnitByMagnitude ==
    SizeFormatted =>
        LET w == format_input.bytes
            k == UnitByMagnitude(w)
        IN  /\ k = 0 => format_result.value \in ByteTexts
            /\ k \in 1..3 => format_result.value \in TextsUpTo1024[k]
            /\ k = 4 => format_result.value =
                            OneDecimal(WideTenths(DoubleOf(w), 4)) \o " TiB"

\* a count of 1024^5 (one PiB) has been formatted, in TiB
C16_Witness ==
    /\ SizeFormatted
    /\ format_input.bytes = Wide(1024, 0, 0)
    /\ format_result.value = "1024.0 TiB"

\* C17: for every byte count the number FormatSize renders is less than 1024
C17_RenderedBelow1024 ==
    SizeFormatted =>
        \/ format_result.value \in ByteTexts
        \/ \E k \in 1..4 : format_result.value \in TextsBelow1024[k]

\* C17 (amended): below 1024^5 the rendered number is at most 1024.0, reached by
\* rounding just below a power of 1024 (1048575 gives "1024.0 KiB"); from 1024^5 on
\* the unit stays TiB and the number is 1024.0 or more
C17_RenderedUpTo1024BelowPiB ==
    SizeFormatted =>
        LET w == format_input.bytes
            tib == WideTenths(DoubleOf(w), 4)
        IN  /\ WideLess(w, 5) =>
                  \/ format_result.value \in ByteTexts
                  \/ \E k \in 1..4 : format_result.value \in TextsUpTo1024[k]
            /\ ~WideLess(w, 5) =>
                  /\ tib >= 10240
                  /\ format_result.value = OneDecimal(tib) \o " TiB"
            /\ w = Wide(0, 0, Limb - 1) => format_result.value = "1024.0 KiB"
            /\ w = Wide(0, 1023, Limb - 1) => format_result.value = "1024.0 MiB"
            /\ w = Wide(16777215, Limb - 1, Limb - 1) =>
                  format_result.value = "16777216.0 TiB"

\* 1048575 bytes have been formatted as "1024.0 KiB"
C17_Witness ==
    /\ SizeFormatted
    /\ format_input.bytes = Wide(0, 0, Limb - 1)
    /\ format_result.value = "1024.0 KiB"

\* C18: a count below 1024 is rendered as the integer itself followed by " B"; a
\* count of 1024 or more with exactly one decimal place and its unit
C18_Rendering ==
    SizeFormatted =>
        LET w == format_input.bytes
            k == UnitByMagnitude(w)
        IN  /\ k = 0 => format_result.value = ToString(w.l) \o " B"
            /\ k > 0 => \E t \in {WideTenths(DoubleOf(w), k)} :
                            format_result.value =
                                ToString(t \div 10) \o "." \o ToString(t % 10)
                                    \o " " \o UnitName(k)
            /\ w = Wide(0, 0, 0) => format_result.value = "0 B"
            /\ w = Wide(0, 0, 1023) => format_result.value = "1023 B"
            /\ w = Wide(0, 0, 1024) => format_result.value = "1.0 KiB"
            /\ w = Wide(0, 0, 1536) => format_result.value = "1.5 KiB"
            /\ w = Wide(0, 1, 0) => format_result.value = "1.0 MiB"
            /\ w = Wide(0, 1024, 0) => format_result.value = "1.0 GiB"
            /\ w = Wide(1, 0, 0) => format_result.value = "1.0 TiB"

\* 1536 bytes have been formatted
C18_Witness ==
    /\ SizeFormatted
    /\ format_input.bytes = Wide(0, 0, 1536)
    /\ format_result.value = "1.5 KiB"

\* C19: with total > 0 FormatPercentage returns count * 100 / total rounded to the
\* nearest tenth, with one decimal place and a trailing "%"
C19_NearestTenth ==
    PercentageFormatted /\ format_input.total_blocks > 0 =>
        LET b == format_input.blocks
            n == format_input.total_blocks
            floor == (1000 * b) \div n
        IN  /\ \E t \in {floor, floor + 1} :
                  /\ 2 * (1000 * b - t * n) <= n
                  /\ 2 * (t * n - 1000 * b) <= n
                  /\ format_result.value =
                         ToString(t \div 10) \o "." \o ToString(t % 10) \o "%"
            /\ <<b, n>> = <<0, 100>> => format_result.value = "0.0%"
            /\ <<b, n>> = <<50, 100>> => format_result.value = "50.0%"
            /\ <<b, n>> = <<100, 100>> => format_result.value = "100.0%"
            /\ <<b, n>> = <<1, 3>> => format_result.value = "33.3%"
            /\ <<b, n>> = <<2, 3>> => format_result.value = "66.7%"

\* two thirds have been formatted
C19_Witness ==
    /\ PercentageFormatted
    /\ format_input.blocks = 2
    /\ format_input.total_blocks = 3
    /\ format_result.value = "66.7%"

----------------------------------------------------------------------------
(* Properties of inspect_column *)

\* invocation i of inspect_column has bound its table and column
ColumnBound(i) == pc[i] \in {"bound", "ready", "exhausted"}

\* the column id the call names
TargetOf(i) == PhysicalIndex(inputs[i][3])

\* a segment qualifies: target column, main-data path, persistent, valid primary block
Qualifies(seg, column_id) ==
    /\ seg.column_id = column_id
    /\ seg.column_path = "[" \o ToString(column_id) \o "]"
    /\ seg.persistent
    /\ seg.block_id # INVALID_BLOCK

\* the qualifying segments of a snapshot, in snapshot order
QualifyingSegments(segs, column_id) ==
    SelectSeq(segs, LAMBDA seg : Qualifies(seg, column_id))

\* the snapshot with one more additional block on segment j
WithOneMoreBlock(segs, j) ==
    [segs EXCEPT ![j].additional_blocks = Append(@, 9)]

\* number of qualifying segments among the first j of the snapshot
RankOf(segs, j, column_id) == Len(QualifyingSegments(SubSeq(segs, 1, j), column_id))

\* the sizes the resolver gives to a snapshot
SizesOf(segs, i) ==
    FilterAndCalculateSegments(segs, TargetOf(i), inputs[i][3], ColumnTypeOf(TargetOf(i)),
                               block_alloc_size, debug_build).value

\* C11: the compressed size reported for a segment is its primary-block size plus
\* (number of additional block ids) x block_alloc_size; one more additional block on a
\* segment raises its total by exactly block_alloc_size and changes no other size
C11_AdditionalBlocksAreFullBlocks ==
    \A i \in Invocations :
        ColumnBound(i) =>
            LET q == QualifyingSegments(all_segments, TargetOf(i))
                e == bind_data[i].filtered_segments
            IN  /\ Len(e) = Len(q)
                /\ \A k \in DOMAIN e :
                       e[k].additional_blocks_size =
                           Len(q[k].additional_blocks) * block_alloc_size
                /\ \A k \in DOMAIN emitted[i] :
                       emitted[i][k].compressed_size =
                           FormatSize(e[k].compressed_size
                               + Len(q[k].additional_blocks) * block_alloc_size)
                /\ \A j \in DOMAIN all_segments :
                       Qualifies(all_segments[j], TargetOf(i)) =>
                           LET more == SizesOf(WithOneMoreBlock(all_segments, j), i)
                               r == RankOf(all_segments, j, TargetOf(i))
                           IN  /\ Len(more) = Len(e)
                               /\ \A k \in DOMAIN e :
                                      /\ more[k].compressed_size = e[k].compressed_size
                                      /\ more[k].additional_blocks_size =
                                             e[k].additional_blocks_size
                                                 + (IF k = r THEN block_alloc_size ELSE 0)

\* a segment with two additional blocks of 1024 bytes, starting at offset 100 as the
\* last one of its block, has been reported with 924 + 2048 bytes
C11_Witness ==
    /\ pc[1] = "exhausted"
    /\ block_alloc_size = 1024
    /\ \E k \in DOMAIN emitted[1] :
           /\ bind_data[1].filtered_segments[k].additional_blocks_size = 2048
           /\ bind_data[1].filtered_segments[k].compressed_size = 924
           /\ emitted[1][k].compressed_size = "2.9 KiB"

\* C12: inspect_column emits one row per qualifying segment, in snapshot order, and
\* no other row; each row carries the segment's row group, compression and row count
C12_OneRowPerQualifyingSegment ==
    \A i \in Invocations :
        ColumnBound(i) =>
            LET q == QualifyingSegments(all_segments, TargetOf(i))
            IN  /\ Len(emitted[i]) <= Len(q)
                /\ pc[i] = "exhausted" => Len(emitted[i]) = Len(q)
                /\ \A k \in DOMAIN emitted[i] :
                       /\ emitted[i][k].row_group_id = q[k].row_group_index
                       /\ emitted[i][k].compression = q[k].compression_type
                       /\ emitted[i][k].row_count = q[k].segment_count
                       /\ emitted[i][k].column_name = inputs[i][3]

\* a snapshot of three segments, one of them a validity bitmap of the target
\* column, has been reported in two rows
C12_Witness ==
    /\ pc[1] = "exhausted"
    /\ Len(all_segments) = 3
    /\ Len(emitted[1]) = 2
    /\ \E j \in DOMAIN all_segments :
           /\ all_segments[j].column_id = TargetOf(1)
           /\ all_segments[j].column_path = ValidityPath(TargetOf(1))
           /\ all_segments[j].persistent

\* C13: the estimated decompressed size is "N/A" exactly when the column type is
\* variable-width; for a fixed-width type it is the formatted row_count x width
C13_NotApplicableOnlyForVariableWidth ==
    \A i \in Invocations :
        ColumnBound(i) =>
            \A k \in DOMAIN emitted[i] :
                LET row == emitted[i][k]
                IN  IF row.column_type = "VARCHAR"
                    THEN row.estimated_decompressed_size = "N/A"
                    ELSE /\ row.estimated_decompressed_size # "N/A"
                         /\ row.estimated_decompressed_size = FormatSize(row.row_count * 4)

\* C14: an analysis whose target database is in-memory fails with an invalid-input
\* error and produces no rows
C14_InMemoryRejected ==
    \A i \in Invocations :
        (catalog.in_memory /\ pc[i] # "start" /\ inputs[i][2] = "t"
            /\ ColumnExists(inputs[i][3]))
        => /\ pc[i] = "failed"
           /\ error[i] = "invalid_input"
           /\ emitted[i] = <<>>

\* C15: inspect_column with a column name that is not in the resolved table fails
\* with an invalid-input error in bind: nothing is filtered or sized, no row comes out
C15_UnknownColumnFailsInBind ==
    \A i \in Invocations :
        (pc[i] # "start" /\ inputs[i][2] = "t" /\ ~ColumnExists(inputs[i][3]))
        => /\ pc[i] = "failed"
           /\ error[i] = "invalid_input"
           /\ bind_data[i] = <<>>
           /\ pulls[i] = 0
           /\ offset[i] = 0
           /\ output[i] = <<>>
           /\ emitted[i] = <<>>

\* the call named a column the table does not have, and has failed
C15_Witness ==
    /\ inputs[1] = <<"mydb", "t", "no_such_column">>
    /\ Len(QualifyingSegments(all_segments, 0)) > 0
    /\ pc[1] = "failed"
    /\ error[1] = "invalid_input"

----------------------------------------------------------------------------
(* Properties of the pull protocol *)

\* the rows of an entry list of inspect_storage_summary
SummaryRows(list) == [k \in DOMAIN list |-> SummaryRow(list[k])]

\* invocation i will hand over no further batch
Ended(i) == pc[i] \in {"exhausted", "failed"}

\* C20: the batches returned by successive Execute calls, concatenated, are the
\* entry list: every entry once, in list order, at most STANDARD_VECTOR_SIZE rows a batch
C20_BatchesConcatenateToEntries ==
    \A i \in Invocations :
        /\ Len(output[i]) <= vector_size
        /\ IsPrefix(emitted[i], SummaryRows(entries[i]))
        /\ Ended(i) => emitted[i] = SummaryRows(entries[i])

----------------------------------------------------------------------------
(* Further properties of FilterAndCalculateSegments *)

\* the elements of a sequence
Range(seq) == {seq[k] : k \in DOMAIN seq}

\* C24: the internal-consistency failure of FilterAndCalculateSegments is
\* unreachable: the block_offset of every qualifying target segment is in the sorted
\* offset list of its block, so the lookup succeeds and the call returns its entries
C24_LookupAlwaysSucceeds ==
    /\ \A j \in DOMAIN all_segments :
           Qualifies(all_segments[j], target_column_id) =>
               /\ all_segments[j].block_offset
                      \in Range(BlockToAllOffsets(all_segments, all_segments[j].block_id))
               /\ OffsetFound(all_segments, all_segments[j])
    /\ filter_result.status \in {"none", "ok"}

\* the resolver has returned the entries of a snapshot whose target column has a
\* spilling segment and shares a block with another column
C24_Witness ==
    /\ filter_result.status = "ok"
    /\ Len(filter_result.value) = 2
    /\ \E j \in DOMAIN all_segments :
           /\ Qualifies(all_segments[j], target_column_id)
           /\ all_segments[j].additional_blocks # <<>>
    /\ \E j \in DOMAIN all_segments : all_segments[j].column_id # target_column_id

\* C29: when every persistent segment starts inside its block, the primary-block
\* compressed size s of every qualifying segment satisfies
\* 0 < s <= block_alloc_size - block_offset, also with several persistent segments
\* recorded at the same block id and offset
C29_SizeWithinBlock ==
    (/\ filter_result.status = "ok"
     /\ \A j \in DOMAIN all_segments :
            all_segments[j].persistent => all_segments[j].block_offset < block_alloc_size)
    => \A k \in DOMAIN filter_result.value :
           LET e == filter_result.value[k]
               seg == all_segments[e.row_group_index + 1]
           IN  /\ 0 < e.compressed_size
               /\ e.compressed_size <= block_alloc_size - seg.block_offset

----------------------------------------------------------------------------
(* Further properties of inspect_storage_summary *)

\* concatenation of a sequence of sequences
RECURSIVE Flatten(_)
Flatten(seqs) == IF seqs = <<>> THEN <<>> ELSE Head(seqs) \o Flatten(Tail(seqs))

\* the segment lists of all tables in all non-internal schemas, concatenated
UserTableSegments(cat) ==
    Flatten([k \in DOMAIN cat.schemas |->
                IF cat.schemas[k].name \in {"information_schema", "pg_catalog"}
                THEN <<>>
                ELSE Flatten(cat.schemas[k].tables)])

\* C27: the table_data block count of inspect_storage_summary is the block identity
\* set applied to the concatenation of the segment lists of all tables in all
\* non-internal schemas: a block shared by two tables counts once, internal schemas
\* contribute nothing
C27_TableDataIsOneIdentitySet ==
    \A i \in Invocations :
        LET whole == CountUniqueBlocks(UserTableSegments(catalog), debug_build)
        IN  /\ Built(i) =>
                  /\ whole.status = "ok"
                  /\ entries[i][1].component = "table_data"
                  /\ entries[i][1].block_count = whole.value
            /\ (pc[i] = "failed" /\ error[i] = "internal_error" /\ entries[i] = <<>>) =>
                  whole.status = "internal_error"

\* the breakdown has been built for a catalog whose tables share blocks 1 and 3 and
\* use three blocks in all
C27_Witness ==
    /\ Built(1)
    /\ Len(catalog.schemas) = 2
    /\ catalog.schemas[2].tables = <<TableSharing, TableOneBlock>>
    /\ entries[1][1].block_count = 3

\* C28: for every total, table data, metadata and free count the collaborators can
\* supply, the index row's block_count is at most total_blocks: the subtraction does
\* not wrap around and the conversion to a signed output value does not fail
C28_IndexCountNeverWraps ==
    \A i \in Invocations :
        Built(i) =>
            /\ entries[i][2].component = "index"
            /\ entries[i][2].block_count >= 0
            /\ entries[i][2].block_count <= database_size.total_blocks
            /\ error[i] # "internal_error"

----------------------------------------------------------------------------
(* Properties of the cursor and of the snapshot *)

\* invocation i makes an Execute call in this step
ExecuteStep(i) == pulls'[i] # pulls[i]

\* C21: no step of an analysis changes the inspected snapshot (segment lists, block
\* universe, metadata block list), and Execute leaves the bind data and the
\* pre-built entry list as they are
C21_SnapshotAndEntriesUnchanged ==
    [][/\ snapshotVars' = snapshotVars
       /\ \A i \in Invocations :
              ExecuteStep(i) => /\ entries'[i] = entries[i]
                                /\ bind_data'[i] = bind_data[i]]_vars

\* two Execute calls have handed out all five rows of a breakdown
C21_Witness ==
    /\ pulls[1] >= 2
    /\ Len(entries[1]) = 5
    /\ Len(emitted[1]) = 5

\* the number of Execute calls that hand out n rows
CeilDiv(n, d) == (n + d - 1) \div d

\* C25: for an entry list of n rows the cursor is at n after
\* ceil(n / STANDARD_VECTOR_SIZE) Execute calls, and every later call returns an
\* empty batch and leaves the cursor at n
C25_CursorReachesEnd ==
    \A i \in Invocations :
        Built(i) =>
            LET n == Len(entries[i])
            IN  /\ pulls[i] >= CeilDiv(n, vector_size) => offset[i] = n
                /\ pulls[i] > CeilDiv(n, vector_size) =>
                       /\ output[i] = <<>>
                       /\ pc[i] = "exhausted"

\* C26: 0 <= offset <= number of entries in every state; offset starts at 0, an
\* Execute call raises it by exactly the cardinality of the batch it returns, and
\* no step lowers or resets it
C26_CursorInvariant ==
    [][\A i \in Invocations :
           /\ 0 <= offset'[i] /\ offset'[i] <= Len(entries'[i])
           /\ pulls'[i] = 0 => offset'[i] = 0
           /\ offset'[i] >= offset[i]
           /\ (ExecuteStep(i) /\ error'[i] = "none") =>
                  offset'[i] = offset[i] + Len(output'[i])
           /\ ~ExecuteStep(i) => offset'[i] = offset[i]]_vars

\* the cursor stands in the middle of the list after one batch of two rows
C26_Witness ==
    /\ pulls[1] = 1
    /\ offset[1] = 2
    /\ Len(output[1]) = 2
    /\ Len(entries[1]) = 5

----------------------------------------------------------------------------
(* Two invocations over one snapshot *)

\* number of rows a consumer that runs alone has received after k Execute calls:
\* whole batches up to the end of the list, or up to the batch whose block count
\* cannot be converted
RowsAloneCount(list, k) ==
    LET bad == {p \in DOMAIN list : CastFails(list[p].block_count)}
        reach == IF k * vector_size < Len(list) THEN k * vector_size ELSE Len(list)
    IN  IF bad = {}
        THEN reach
        ELSE LET whole == ((Minimum(bad) - 1) \div vector_size) * vector_size
             IN  IF reach < whole THEN reach ELSE whole

RowsAlone(list, k) == SubSeq(SummaryRows(list), 1, RowsAloneCount(list, k))

\* C22: with two invocations over the same snapshot and any interleaving of their
\* Execute calls, each invocation has its own entry list and cursor and has been
\* given exactly the rows it would have been given after as many calls alone
C22_InterleavingIsInvisible ==
    \A i \in Invocations :
        pc[i] \in {"ready", "exhausted"} \/ (pc[i] = "failed" /\ Built(i)) =>
            /\ entries[i] = BuildEntries(database_size, CountMetadataBlocks(metadata_info),
                                         CollectTableDataBlocks(catalog, debug_build).value)
            /\ emitted[i] = RowsAlone(entries[i], pulls[i])
            /\ error[i] = "none" => offset[i] = Len(emitted[i])

\* both invocations are in the middle of their lists, at different positions
C22_Witness ==
    /\ pulls[1] = 2 /\ offset[1] = 4 /\ Len(emitted[1]) = 4
    /\ pulls[2] = 1 /\ offset[2] = 2 /\ Len(emitted[2]) = 2
    /\ pc[1] = "ready" /\ pc[2] = "ready"

----------------------------------------------------------------------------
(* Properties of inspect_storage *)

IsPersistentUserDatabase(db) == ~db.system /\ ~db.temporary /\ ~db.in_memory

NamesOf(rows) == [k \in DOMAIN rows |-> rows[k].database_name]

PersistentNames ==
    LET kept == SelectSeq(databases, IsPersistentUserDatabase)
    IN  [k \in DOMAIN kept |-> kept[k].name]

\* C30: inspect_storage returns exactly one row per attached database that is not
\* the system database, not temporary and not in memory, in the order of the
\* database list, and a database that is in memory or temporary never makes the
\* call fail
C30_OneRowPerPersistentDatabase ==
    \A i \in Invocations :
        /\ error[i] = "none"
        /\ pc[i] # "failed"
        /\ pc[i] \in {"ready", "exhausted"} =>
               /\ NamesOf(entries[i]) = PersistentNames
               /\ NamesOf(emitted[i]) = SubSeq(PersistentNames, 1, offset[i])
        /\ pc[i] = "exhausted" => NamesOf(emitted[i]) = PersistentNames

\* the only row has been returned for a persistent database attached beside an
\* in-memory one, the system database and the temporary database
C30_Witness ==
    /\ pc[1] = "exhausted"
    /\ Len(databases) = 4
    /\ \E k \in DOMAIN databases : databases[k].name = "memory"
    /\ Len(emitted[1]) = 1
    /\ emitted[1][1].database_name = "mydb"

----------------------------------------------------------------------------
(* Properties of the registered argument lists *)

\* C23: list-tables-with-size (inspect_database), inspect-column and
\* storage-breakdown (inspect_storage_summary) each accept a call with a
\* database name and a call without one
C23_DatabaseNameOptional ==
    \A i \in Invocations :
        function_name[i] \in {"inspect_database", "inspect_column",
                              "inspect_storage_summary"} =>
            error[i] # "binder_error"

====
